---- MODULE Spec2Model ----
(***************************************************************************)
(* A model of LCH::ThreadPool (include/thread_pool.hpp) and of the test    *)
(* programs that drive it (tests/thread_pool.cpp), followed by a model of  *)
(* LCH::AtomicQueue (atomic_containers.hpp).                               *)
(*                                                                         *)
(* Every access to an atomic member (finished, noMoreTasks, waiting), every*)
(* mutex acquisition and every condition-variable operation is one step.   *)
(* Operations on data that the acting thread protects with a mutex it      *)
(* holds are merged into the step that acquires or releases that mutex.    *)
(***************************************************************************)
EXTENDS Integers, Sequences, FiniteSets, TLC

(***************************************************************************)
(* Bounds of the model.                                                    *)
(***************************************************************************)
MaxThreads == 2      \* largest threadCount given to the constructor / Restart
MaxTasks == 3        \* number of tasks for which AddTask may build a future
MaxSubmit == 2       \* the same, in programs that may call every method
NumClients == 2      \* threads of the program that call the pool's methods
MaxRestarts == 1     \* successful Restart calls in one behaviour
MaxQueue == 2        \* largest number of elements pushed onto an AtomicQueue

Workers == 1..MaxThreads
Clients == 1..NumClients
TaskIds == 1..MaxTasks

(***************************************************************************)
(* tests/thread_pool.cpp: the callables of the tests.                      *)
(***************************************************************************)
testCases ==
    << <<1, 2, 3>>,
       <<62, 88234, 462234, 1241511>>,
       << >>,
       <<88>>,
       <<1, 1, 1, 1, 1, 1, 1, 1, 1, 1, 1, 1>> >>

RECURSIVE Add(_)
Add(args) == IF args = << >> THEN 0 ELSE Head(args) + Add(Tail(args))

\* The shared state of a std::future: what get() would do.
NoFuture == [st |-> "none", v |-> 0]
Pending == [st |-> "pending", v |-> 0]
BrokenPromise == [st |-> "broken", v |-> 0]

\* The shared state after the callable has thrown: get() rethrows.
Raised == [st |-> "exception", v |-> 0]

\* Running the packaged_task of task t stores the callable's return value.
Invoke(t) == [st |-> "value", v |-> Add(testCases[((t - 1) % Len(testCases)) + 1])]

(***************************************************************************)
(* Identities of the threads that can hold a mutex.                        *)
(***************************************************************************)
Free == <<"free", 0>>
W(w) == <<"worker", w>>
C(c) == <<"client", c>>

VARIABLES
    \* members of ThreadPool
    tasks,          \* std::queue<std::unique_ptr<AbstractTask>>: task ids
    finished,       \* std::atomic<bool>
    noMoreTasks,    \* std::atomic<bool>
    waiting,        \* std::atomic<std::size_t>
    threads,        \* std::vector<std::thread>: worker ids
    taskMutex,      \* holder of taskMutex
    threadMutex,    \* holder of threadMutex
    \* each worker thread inside WaitForTask
    wpc,            \* position of the worker in WaitForTask
    myTask,         \* the local unique_ptr myTask (0: null)
    \* each client thread
    cpc,            \* position of the client inside a method of the pool
    cTask,          \* the task the client's AddTask call has packaged
    cJoin,          \* index of the thread WaitUntilFinished joins next
    result,         \* how the client's last completed call ended
    \* the tasks and their futures
    future,         \* shared state of each task's std::future
    execCount,      \* how many times each task's callable has been run
    nextTask,       \* the next task id AddTask hands out
    go,             \* tests/thread_pool.cpp: the flag AddLater waits for
    \* lifetime of the pool object
    life,           \* "alive", "destructing" or "destroyed"
    restarts,       \* successful Restart calls so far
    \* history (not read by any operation)
    snap,           \* per client: the tasks of interest when its call began
    stopInfo,       \* what StopASAP saw when it was called and took effect
    shutdownReturned, \* a shutdown call has returned and Restart was not called since
    \* an AtomicQueue<T> (atomic_containers.hpp) and the threads that use it
    data,           \* std::queue<T, Container> data
    qpc,            \* position of each thread inside a member function
    qop,            \* the member function the thread is in
    qout            \* the value the member function returns

poolVars == <<tasks, finished, noMoreTasks, waiting, threads, taskMutex, threadMutex>>
workerVars == <<wpc, myTask>>
clientVars == <<cpc, cTask, cJoin, result>>
taskVars == <<future, execCount, nextTask, go>>
histVars == <<snap, stopInfo, shutdownReturned>>
threadPoolVars == <<poolVars, workerVars, clientVars, taskVars, life, restarts, histVars>>
queueVars == <<data, qpc, qop, qout>>
vars == <<threadPoolVars, queueVars>>

(***************************************************************************)
(* Helpers.                                                                *)
(***************************************************************************)
Range(s) == {s[i] : i \in 1..Len(s)}

\* ThreadPool::ThreadCount
ThreadCount == Len(threads)

\* ThreadPool::IdleThreadCount
IdleThreadCount == waiting

\* ThreadPool::RunningThreadCount, before the reduction modulo 2^64 of size_t
RunningThreadCount == ThreadCount - IdleThreadCount

\* ThreadPool::Idle
Idle == ThreadCount = IdleThreadCount

\* ThreadPool::Running
Running == ~Idle

\* Fault: the wait ends whatever the state of the pool is.
WakeAlways == TRUE

\* ThreadPool::ThreadShouldWake
ThreadShouldWake == tasks # << >> \/ finished \/ noMoreTasks

\* Destroying a task object: a packaged_task that never ran breaks its promise.
DestroyTasks(S, fut) ==
    [t \in TaskIds |-> IF t \in S /\ fut[t].st = "pending" THEN BrokenPromise ELSE fut[t]]

\* Workers blocked in notifier.wait
WaitSet == {w \in Workers : wpc[w] = "Waiting"}

\* std::condition_variable::notify_all
NotifyAll(pc) == [w \in Workers |-> IF pc[w] = "Waiting" THEN "Woken" ELSE pc[w]]

\* std::condition_variable::notify_one: the workers it may wake (0: none waits)
NotifyOneChoices == IF WaitSet = {} THEN {0} ELSE WaitSet

NotifyOne(pc, w) == [x \in Workers |-> IF x = w THEN "Woken" ELSE pc[x]]

\* Tasks whose AddTask call has returned a future
Returned(t) ==
    /\ future[t].st # "none"
    /\ \A c \in Clients : ~(cpc[c] \in {"AddPush", "AddNotify"} /\ cTask[c] = t)

\* Tasks that have been pushed onto the queue at some time
Pushed(t) ==
    /\ future[t].st # "none"
    /\ \A c \in Clients : ~(cpc[c] = "AddPush" /\ cTask[c] = t)

Completed(t) == execCount[t] >= 1

\* The threads the constructor (or Restart) spawns, each at the top of WaitForTask
Spawn(n) == [w \in Workers |-> IF w <= n THEN "Lock" ELSE "NoThread"]

ThreadSeq(n) == [i \in 1..n |-> i]

NoStop == [busy |-> FALSE, effective |-> FALSE, snap |-> {}, k |-> 0]

(***************************************************************************)
(* ThreadPool::ThreadPool: the state after construction with k threads.    *)
(***************************************************************************)
InitPool(k) ==
    /\ tasks = << >>
    /\ finished = FALSE
    /\ noMoreTasks = FALSE
    /\ waiting = 0
    /\ threads = ThreadSeq(k)
    /\ taskMutex = Free
    /\ threadMutex = Free
    /\ wpc = Spawn(k)
    /\ myTask = [w \in Workers |-> 0]
    /\ cpc = [c \in Clients |-> "idle"]
    /\ cTask = [c \in Clients |-> 0]
    /\ cJoin = [c \in Clients |-> 0]
    /\ result = [c \in Clients |-> "none"]
    /\ future = [t \in TaskIds |-> NoFuture]
    /\ execCount = [t \in TaskIds |-> 0]
    /\ nextTask = 1
    /\ life = "alive"
    /\ restarts = 0
    /\ snap = [c \in Clients |-> {}]
    /\ stopInfo = NoStop
    /\ shutdownReturned = FALSE
    /\ data = << >>
    /\ qpc = [c \in Clients |-> "idle"]
    /\ qop = [c \in Clients |-> "none"]
    /\ qout = [c \in Clients |-> 0]

Init ==
    /\ \E k \in 0..MaxThreads : InitPool(k)
    /\ go = TRUE

(***************************************************************************)
(* ThreadPool::WaitForTask, one worker w.                                  *)
(***************************************************************************)
\* The worker leaves the loop: taskLock is released, myTask is destroyed.
WorkerBreak(w) ==
    /\ taskMutex' = Free
    /\ wpc' = [wpc EXCEPT ![w] = "Exited"]
    /\ future' = DestroyTasks({myTask[w]}, future)
    /\ myTask' = [myTask EXCEPT ![w] = 0]

\* line 197-198: lock taskMutex, test tasks.empty()
WLock(w) ==
    /\ wpc[w] = "Lock"
    /\ taskMutex = Free
    /\ taskMutex' = W(w)
    /\ wpc' = [wpc EXCEPT ![w] = IF tasks = << >> THEN "CheckFinished" ELSE "CheckNoMore"]
    /\ UNCHANGED <<tasks, finished, noMoreTasks, waiting, threads, threadMutex, myTask,
                   clientVars, taskVars, life, restarts, histVars>>
    /\ UNCHANGED queueVars

\* line 199: if (finished) break;
WCheckFinished(w) ==
    /\ wpc[w] = "CheckFinished"
    /\ IF finished
         THEN /\ WorkerBreak(w)
              /\ UNCHANGED <<execCount, nextTask, go>>
         ELSE /\ wpc' = [wpc EXCEPT ![w] = "IncWaiting"]
              /\ UNCHANGED <<taskMutex, myTask, taskVars>>
    /\ UNCHANGED <<tasks, finished, noMoreTasks, waiting, threads, threadMutex,
                   clientVars, life, restarts, histVars>>
    /\ UNCHANGED queueVars

\* line 200: ++waiting
WIncWaiting(w) ==
    /\ wpc[w] = "IncWaiting"
    /\ waiting' = waiting + 1
    /\ wpc' = [wpc EXCEPT ![w] = "Pred"]
    /\ UNCHANGED <<tasks, finished, noMoreTasks, threads, taskMutex, threadMutex, myTask,
                   clientVars, taskVars, life, restarts, histVars>>
    /\ UNCHANGED queueVars

\* line 201: notifier.wait evaluates its predicate while holding taskLock
WPred(w) ==
    /\ wpc[w] = "Pred"
    /\ wpc' = [wpc EXCEPT ![w] = IF ThreadShouldWake THEN "DecWaiting" ELSE "Block"]
    /\ UNCHANGED <<poolVars, myTask, clientVars, taskVars, life, restarts, histVars>>
    /\ UNCHANGED queueVars

\* line 201: the predicate was false: release taskLock and block, atomically
WBlock(w) ==
    /\ wpc[w] = "Block"
    /\ taskMutex' = Free
    /\ wpc' = [wpc EXCEPT ![w] = "Waiting"]
    /\ UNCHANGED <<tasks, finished, noMoreTasks, waiting, threads, threadMutex, myTask,
                   clientVars, taskVars, life, restarts, histVars>>
    /\ UNCHANGED queueVars

\* line 201: std::condition_variable::wait may wake without a notification
WSpuriousWake(w) ==
    /\ wpc[w] = "Waiting"
    /\ wpc' = [wpc EXCEPT ![w] = "Woken"]
    /\ UNCHANGED <<poolVars, myTask, clientVars, taskVars, life, restarts, histVars>>
    /\ UNCHANGED queueVars

\* line 201: a woken worker re-acquires taskLock before testing the predicate again
WReacquire(w) ==
    /\ wpc[w] = "Woken"
    /\ taskMutex = Free
    /\ taskMutex' = W(w)
    /\ wpc' = [wpc EXCEPT ![w] = "Pred"]
    /\ UNCHANGED <<tasks, finished, noMoreTasks, waiting, threads, threadMutex, myTask,
                   clientVars, taskVars, life, restarts, histVars>>
    /\ UNCHANGED queueVars

\* Fault: the counter is not decremented after the wait.
WKeepWaiting(w) ==
    /\ wpc[w] = "DecWaiting"
    /\ wpc' = [wpc EXCEPT ![w] = "CheckNoMore"]
    /\ UNCHANGED <<poolVars, myTask, clientVars, taskVars, life, restarts, histVars>>
    /\ UNCHANGED queueVars

\* line 202: --waiting
WDecWaiting(w) ==
    /\ wpc[w] = "DecWaiting"
    /\ waiting' = waiting - 1
    /\ wpc' = [wpc EXCEPT ![w] = "CheckNoMore"]
    /\ UNCHANGED <<tasks, finished, noMoreTasks, threads, taskMutex, threadMutex, myTask,
                   clientVars, taskVars, life, restarts, histVars>>
    /\ UNCHANGED queueVars

\* Fault: the worker does not look at noMoreTasks.
NeverSeesNoMoreTasks == FALSE

\* line 204: the load of noMoreTasks
SeesNoMoreTasks == noMoreTasks

\* line 204, left operand: if (noMoreTasks ...) break;
WCheckNoMore(w) ==
    /\ wpc[w] = "CheckNoMore"
    /\ IF SeesNoMoreTasks
         THEN /\ WorkerBreak(w)
         ELSE /\ wpc' = [wpc EXCEPT ![w] = "TakeTask"]
              /\ UNCHANGED <<taskMutex, myTask, future>>
    /\ UNCHANGED <<tasks, finished, noMoreTasks, waiting, threads, threadMutex,
                   clientVars, execCount, nextTask, go, life, restarts, histVars>>
    /\ UNCHANGED queueVars

\* Fault: the front task is taken but stays in the queue.
PopNothing(q) == q

\* line 206: tasks.pop()
PopFront(q) == Tail(q)

\* line 204-207: if (... || tasks.empty()) break; take the front task; unlock
WTakeTask(w) ==
    /\ wpc[w] = "TakeTask"
    /\ IF tasks = << >>
         THEN /\ WorkerBreak(w)
              /\ UNCHANGED tasks
         ELSE /\ future' = DestroyTasks({myTask[w]}, future)
              /\ myTask' = [myTask EXCEPT ![w] = Head(tasks)]
              /\ tasks' = PopFront(tasks)
              /\ taskMutex' = Free
              /\ wpc' = [wpc EXCEPT ![w] = "Exec"]
    /\ UNCHANGED <<finished, noMoreTasks, waiting, threads, threadMutex,
                   clientVars, execCount, nextTask, go, life, restarts, histVars>>
    /\ UNCHANGED queueVars

\* line 208: (*myTask)() runs the packaged_task; AddLater returns once go is set
WExec(w) ==
    /\ wpc[w] = "Exec"
    /\ go
    /\ future' = [future EXCEPT ![myTask[w]] = Invoke(myTask[w])]
    /\ execCount' = [execCount EXCEPT ![myTask[w]] = @ + 1]
    /\ wpc' = [wpc EXCEPT ![w] = "Lock"]
    /\ UNCHANGED <<poolVars, myTask, clientVars, nextTask, go, life, restarts, histVars>>
    /\ UNCHANGED queueVars

\* Fault: the exception leaves (*myTask)() and ends the worker thread.
WExecEscapes(w) ==
    /\ wpc[w] = "Exec"
    /\ go
    /\ execCount' = [execCount EXCEPT ![myTask[w]] = @ + 1]
    /\ future' = DestroyTasks({myTask[w]}, future)
    /\ myTask' = [myTask EXCEPT ![w] = 0]
    /\ wpc' = [wpc EXCEPT ![w] = "Exited"]
    /\ UNCHANGED <<poolVars, clientVars, nextTask, go, life, restarts, histVars>>
    /\ UNCHANGED queueVars

\* line 208, 225: the callable throws; std::packaged_task::operator() catches
\* the exception and stores it in the shared state, nothing reaches the worker
WExecThrows(w) ==
    /\ wpc[w] = "Exec"
    /\ go
    /\ future' = [future EXCEPT ![myTask[w]] = Raised]
    /\ execCount' = [execCount EXCEPT ![myTask[w]] = @ + 1]
    /\ wpc' = [wpc EXCEPT ![w] = "Lock"]
    /\ UNCHANGED <<poolVars, myTask, clientVars, nextTask, go, life, restarts, histVars>>
    /\ UNCHANGED queueVars

(***************************************************************************)
(* The client threads.  A call ends in the position "Ret" with its outcome *)
(* in result; Return hands control back to the caller.                     *)
(***************************************************************************)
Return(c) ==
    /\ cpc[c] = "Ret"
    /\ life = "alive"
    /\ cpc' = [cpc EXCEPT ![c] = "idle"]
    /\ result' = [result EXCEPT ![c] = "none"]
    /\ snap' = [snap EXCEPT ![c] = {}]
    /\ UNCHANGED <<poolVars, workerVars, cTask, cJoin, taskVars, life, restarts,
                   stopInfo, shutdownReturned>>
    /\ UNCHANGED queueVars

(***************************************************************************)
(* ThreadPool::AddTask and ThreadPool::AddTaskDirectly.                    *)
(***************************************************************************)
\* line 240: the test that decides whether AddTaskDirectly throws
AddSeesFinished == finished

\* line 101-104, 240-244: package the callable, take its future, test finished
AddCheck(c, limit) ==
    /\ cpc[c] = "idle"
    /\ life = "alive"
    /\ IF AddSeesFinished
         THEN \* std::logic_error: the packaged task is destroyed, no future is returned
              /\ cpc' = [cpc EXCEPT ![c] = "Ret"]
              /\ result' = [result EXCEPT ![c] = "add_throw"]
              /\ UNCHANGED <<cTask, future, nextTask>>
         ELSE /\ nextTask <= limit
              /\ cpc' = [cpc EXCEPT ![c] = "AddPush"]
              /\ cTask' = [cTask EXCEPT ![c] = nextTask]
              /\ future' = [future EXCEPT ![nextTask] = Pending]
              /\ nextTask' = nextTask + 1
              /\ UNCHANGED result
    /\ UNCHANGED <<poolVars, workerVars, cJoin, execCount, go, life, restarts, histVars>>
    /\ UNCHANGED queueVars

\* Fault: the new task is put ahead of the queued ones.
PushFront(q, t) == <<t>> \o q

\* line 248: tasks.push(std::move(newTask))
PushBack(q, t) == Append(q, t)

\* Fault: the push is made without taking taskMutex.
AddPushUnlocked(c) ==
    /\ cpc[c] = "AddPush"
    /\ tasks' = PushBack(tasks, cTask[c])
    /\ cpc' = [cpc EXCEPT ![c] = "AddNotify"]
    /\ UNCHANGED <<finished, noMoreTasks, waiting, threads, taskMutex, threadMutex,
                   workerVars, cTask, cJoin, result, taskVars, life, restarts, histVars>>
    /\ UNCHANGED queueVars

\* line 246-249: lock taskMutex, tasks.push, unlock
AddPush(c) ==
    /\ cpc[c] = "AddPush"
    /\ taskMutex = Free
    /\ tasks' = PushBack(tasks, cTask[c])
    /\ cpc' = [cpc EXCEPT ![c] = "AddNotify"]
    /\ UNCHANGED <<finished, noMoreTasks, waiting, threads, taskMutex, threadMutex,
                   workerVars, cTask, cJoin, result, taskVars, life, restarts, histVars>>
    /\ UNCHANGED queueVars

\* Fault: the notification after the push is left out.
AddNotifyNobody == {0}

\* line 250: the workers notifier.notify_one() may wake
AddNotifyChoices == NotifyOneChoices

\* line 250, 105: notifier.notify_one(); return futureResult
AddNotify(c) ==
    /\ cpc[c] = "AddNotify"
    /\ \E w \in AddNotifyChoices : wpc' = NotifyOne(wpc, w)
    /\ cpc' = [cpc EXCEPT ![c] = "Ret"]
    /\ result' = [result EXCEPT ![c] = "add_ok"]
    /\ cTask' = [cTask EXCEPT ![c] = 0]
    /\ UNCHANGED <<poolVars, myTask, cJoin, taskVars, life, restarts, histVars>>
    /\ UNCHANGED queueVars

(***************************************************************************)
(* ThreadPool::ClearFutureTasks: every queued task is destroyed.           *)
(***************************************************************************)
ClearedQueue == << >>

\* Fault: the queue is left as it is.
ClearNothing ==
    /\ taskMutex = Free
    /\ UNCHANGED <<future, tasks>>

\* Fault: the queue is cleared only once every worker thread has exited.
ClearWhenJoined ==
    /\ \A w \in Workers : wpc[w] \in {"NoThread", "Exited"}
    /\ taskMutex = Free
    /\ future' = DestroyTasks(Range(tasks), future)
    /\ tasks' = ClearedQueue

ClearFutureTasks ==
    /\ taskMutex = Free
    /\ future' = DestroyTasks(Range(tasks), future)
    /\ tasks' = ClearedQueue

(***************************************************************************)
(* ThreadPool::WaitUntilFinished.                                          *)
(***************************************************************************)
\* line 114-115: lock threadMutex; if (threads.empty()) return;
WUFLockBody(c) ==
    /\ threadMutex = Free
    /\ snap' = [snap EXCEPT ![c] = {t \in TaskIds : Returned(t)}]
    /\ IF threads = << >>
         THEN /\ cpc' = [cpc EXCEPT ![c] = "Ret"]
              /\ result' = [result EXCEPT ![c] = "wuf_ok"]
              /\ shutdownReturned' = TRUE
              /\ UNCHANGED threadMutex
         ELSE /\ cpc' = [cpc EXCEPT ![c] = "WufSetFinished"]
              /\ threadMutex' = C(c)
              /\ UNCHANGED <<result, shutdownReturned>>
    /\ UNCHANGED <<tasks, finished, noMoreTasks, waiting, threads, taskMutex,
                   workerVars, cTask, cJoin, taskVars, restarts, stopInfo>>
    /\ UNCHANGED queueVars

WUFLock(c) ==
    /\ cpc[c] = "idle"
    /\ life = "alive"
    /\ WUFLockBody(c)
    /\ UNCHANGED life

\* line 117: finished = true
WUFSetFinished(c) ==
    /\ cpc[c] = "WufSetFinished"
    /\ finished' = TRUE
    /\ cpc' = [cpc EXCEPT ![c] = "WufNotify"]
    /\ UNCHANGED <<tasks, noMoreTasks, waiting, threads, taskMutex, threadMutex,
                   workerVars, cTask, cJoin, result, taskVars, life, restarts, histVars>>
    /\ UNCHANGED queueVars

\* line 118: notifier.notify_all()
WUFNotify(c) ==
    /\ cpc[c] = "WufNotify"
    /\ wpc' = NotifyAll(wpc)
    /\ cpc' = [cpc EXCEPT ![c] = "WufJoin"]
    /\ cJoin' = [cJoin EXCEPT ![c] = 1]
    /\ UNCHANGED <<poolVars, myTask, cTask, result, taskVars, life, restarts, histVars>>
    /\ UNCHANGED queueVars

\* Fault: join returns although the thread is still inside WaitForTask.
JoinsAtOnce(w) == TRUE

\* line 119: std::thread::join returns once the thread's function has returned
Joinable(w) == wpc[w] = "Exited"

\* line 119: for (auto& thread : threads) thread.join();
WUFJoin(c) ==
    /\ cpc[c] = "WufJoin"
    /\ cJoin[c] <= Len(threads)
    /\ Joinable(threads[cJoin[c]])
    /\ cJoin' = [cJoin EXCEPT ![c] = @ + 1]
    /\ UNCHANGED <<poolVars, workerVars, cpc, cTask, result, taskVars, life, restarts,
                   histVars>>
    /\ UNCHANGED queueVars

\* Fault: the joined threads stay in the thread set.
WUFKeepThreads(c) ==
    /\ cpc[c] = "WufJoin"
    /\ cJoin[c] > Len(threads)
    /\ cJoin' = [cJoin EXCEPT ![c] = 0]
    /\ cpc' = [cpc EXCEPT ![c] = "WufClearTasks"]
    /\ UNCHANGED <<poolVars, workerVars, cTask, result, taskVars, life, restarts,
                   histVars>>
    /\ UNCHANGED queueVars

\* line 120: threads.clear()
WUFClear(c) ==
    /\ cpc[c] = "WufJoin"
    /\ cJoin[c] > Len(threads)
    /\ threads' = << >>
    /\ wpc' = [w \in Workers |-> "NoThread"]
    /\ cJoin' = [cJoin EXCEPT ![c] = 0]
    /\ cpc' = [cpc EXCEPT ![c] = "WufClearTasks"]
    /\ UNCHANGED <<tasks, finished, noMoreTasks, waiting, taskMutex, threadMutex,
                   myTask, cTask, result, taskVars, life, restarts, histVars>>
    /\ UNCHANGED queueVars

\* line 122-123: ClearFutureTasks(); threadLock is released on return
WUFClearTasks(c) ==
    /\ cpc[c] = "WufClearTasks"
    /\ ClearFutureTasks
    /\ threadMutex' = Free
    /\ cpc' = [cpc EXCEPT ![c] = "Ret"]
    /\ result' = [result EXCEPT ![c] = "wuf_ok"]
    /\ shutdownReturned' = TRUE
    /\ UNCHANGED <<finished, noMoreTasks, waiting, threads, taskMutex, workerVars,
                   cTask, cJoin, execCount, nextTask, go, life, restarts, snap, stopInfo>>
    /\ UNCHANGED queueVars

(***************************************************************************)
(* ThreadPool::StopASAP.                                                   *)
(***************************************************************************)
\* Every worker is running a task and further tasks are queued.
AllBusy == tasks # << >> /\ \A i \in 1..Len(threads) : wpc[threads[i]] = "Exec"

\* Fault: StopASAP goes on whatever it finds.
StopNeverReturnsEarly == FALSE

\* line 138: if (noMoreTasks || threads.empty()) return;
StopReturnsEarly == noMoreTasks \/ threads = << >>

\* line 137-138: lock threadMutex and test for an early return
StopLockBody(c) ==
    /\ threadMutex = Free
    /\ snap' = [snap EXCEPT ![c] = {t \in TaskIds : Returned(t) /\ ~Completed(t)}]
    /\ IF StopReturnsEarly
         THEN /\ cpc' = [cpc EXCEPT ![c] = "Ret"]
              /\ result' = [result EXCEPT ![c] = "stop_noop"]
              /\ shutdownReturned' = TRUE
              /\ UNCHANGED <<threadMutex, stopInfo>>
         ELSE /\ cpc' = [cpc EXCEPT ![c] = "StopSetFinished"]
              /\ threadMutex' = C(c)
              /\ stopInfo' = [busy |-> AllBusy, effective |-> FALSE, snap |-> {},
                              k |-> ThreadCount]
              /\ UNCHANGED <<result, shutdownReturned>>
    /\ UNCHANGED <<tasks, finished, noMoreTasks, waiting, threads, taskMutex,
                   workerVars, cTask, cJoin, taskVars, life, restarts>>
    /\ UNCHANGED queueVars

StopLock(c) ==
    /\ cpc[c] = "idle"
    /\ life = "alive"
    /\ StopLockBody(c)

\* line 136-137: StopASAP is called while another thread is inside
\* WaitUntilFinished; the caller has to wait for threadMutex
StopCalledDuringWait(c) ==
    /\ cpc[c] = "idle"
    /\ life = "alive"
    /\ \E d \in Clients :
         cpc[d] \in {"WufSetFinished", "WufNotify", "WufJoin", "WufClearTasks"}
    /\ cpc' = [cpc EXCEPT ![c] = "StopCalled"]
    /\ UNCHANGED <<poolVars, workerVars, cTask, cJoin, result, taskVars, life,
                   restarts, histVars>>
    /\ UNCHANGED queueVars

\* line 137-138: the waiting caller gets threadMutex
StopLockAfterWait(c) ==
    /\ cpc[c] = "StopCalled"
    /\ StopLockBody(c)

\* line 140: finished = true
StopSetFinished(c) ==
    /\ cpc[c] = "StopSetFinished"
    /\ finished' = TRUE
    /\ cpc' = [cpc EXCEPT ![c] = "StopSetNoMore"]
    /\ UNCHANGED <<tasks, noMoreTasks, waiting, threads, taskMutex, threadMutex,
                   workerVars, cTask, cJoin, result, taskVars, life, restarts, histVars>>
    /\ UNCHANGED queueVars

\* line 141: noMoreTasks = true
StopSetNoMore(c) ==
    /\ cpc[c] = "StopSetNoMore"
    /\ noMoreTasks' = TRUE
    /\ cpc' = [cpc EXCEPT ![c] = "StopNotify"]
    /\ stopInfo' = [stopInfo EXCEPT !.effective = TRUE,
                                    !.snap = {t \in TaskIds : Pushed(t) /\ ~Completed(t)}]
    /\ UNCHANGED <<tasks, finished, waiting, threads, taskMutex, threadMutex,
                   workerVars, cTask, cJoin, result, taskVars, life, restarts,
                   snap, shutdownReturned>>
    /\ UNCHANGED queueVars

\* line 142: notifier.notify_all()
StopNotify(c) ==
    /\ cpc[c] = "StopNotify"
    /\ wpc' = NotifyAll(wpc)
    /\ cpc' = [cpc EXCEPT ![c] = "StopClearTasks"]
    /\ UNCHANGED <<poolVars, myTask, cTask, cJoin, result, taskVars, life, restarts,
                   histVars>>
    /\ UNCHANGED queueVars

\* line 144-145: ClearFutureTasks(); threadLock is released on return
StopClearTasks(c) ==
    /\ cpc[c] = "StopClearTasks"
    /\ ClearFutureTasks
    /\ threadMutex' = Free
    /\ cpc' = [cpc EXCEPT ![c] = "Ret"]
    /\ result' = [result EXCEPT ![c] = "stop_ok"]
    /\ shutdownReturned' = TRUE
    /\ UNCHANGED <<finished, noMoreTasks, waiting, threads, taskMutex, workerVars,
                   cTask, cJoin, execCount, nextTask, go, life, restarts, snap, stopInfo>>
    /\ UNCHANGED queueVars

(***************************************************************************)
(* ThreadPool::Restart.  The whole body runs under threadMutex while no    *)
(* worker exists, so it is one step.                                       *)
(***************************************************************************)
\* Fault: Restart does not test the thread set.
RestartNeverThrows == FALSE

\* line 151: if (threads.size() != 0) throw
RestartThrows == Len(threads) # 0

Restart(c, n) ==
    /\ cpc[c] = "idle"
    /\ life = "alive"
    /\ threadMutex = Free
    /\ cpc' = [cpc EXCEPT ![c] = "Ret"]
    /\ IF RestartThrows
         THEN /\ result' = [result EXCEPT ![c] = "restart_throw"]
              /\ UNCHANGED <<finished, noMoreTasks, threads, wpc, restarts,
                             shutdownReturned, stopInfo>>
         ELSE /\ restarts < MaxRestarts
              /\ noMoreTasks' = FALSE
              /\ finished' = FALSE
              /\ threads' = ThreadSeq(n)
              /\ wpc' = Spawn(n)
              /\ restarts' = restarts + 1
              /\ result' = [result EXCEPT ![c] = "restart_ok"]
              /\ shutdownReturned' = FALSE
              /\ stopInfo' = NoStop
    /\ UNCHANGED <<tasks, waiting, taskMutex, threadMutex, myTask, cTask, cJoin,
                   taskVars, life, snap>>
    /\ UNCHANGED queueVars

(***************************************************************************)
(* ThreadPool::~ThreadPool: WaitUntilFinished(), then the members are      *)
(* destroyed.  No other thread may be using the pool.                      *)
(***************************************************************************)
DtorCall(c) ==
    /\ cpc[c] = "idle"
    /\ life = "alive"
    /\ \A d \in Clients : cpc[d] = "idle"
    /\ life' = "destructing"
    /\ WUFLockBody(c)

\* the queue member is destroyed with whatever it still holds
DtorMembers(c) ==
    /\ cpc[c] = "Ret"
    /\ life = "destructing"
    /\ future' = DestroyTasks(Range(tasks), future)
    /\ tasks' = << >>
    /\ life' = "destroyed"
    /\ cpc' = [cpc EXCEPT ![c] = "idle"]
    /\ result' = [result EXCEPT ![c] = "none"]
    /\ snap' = [snap EXCEPT ![c] = {}]
    /\ UNCHANGED <<finished, noMoreTasks, waiting, threads, taskMutex, threadMutex,
                   workerVars, cTask, cJoin, execCount, nextTask, go, restarts,
                   stopInfo, shutdownReturned>>
    /\ UNCHANGED queueVars

(***************************************************************************)
(* tests/thread_pool.cpp line 128-129: go = true; cv.notify_all()          *)
(***************************************************************************)
Release ==
    /\ ~go
    /\ noMoreTasks
    /\ \A c \in Clients : cpc[c] = "idle"
    /\ go' = TRUE
    /\ UNCHANGED <<poolVars, workerVars, clientVars, future, execCount, nextTask,
                   life, restarts, histVars>>
    /\ UNCHANGED queueVars

(***************************************************************************)
(* LCH::AtomicQueue (atomic_containers.hpp).  Every member function works  *)
(* on data under data_mutex; a critical section is one step, and           *)
(* data_cv.wait releases the mutex for as long as the thread is blocked.   *)
(***************************************************************************)
QValues == TaskIds

\* line 74, 84, 121-122: what front, back and pop do to a queue that is not empty
Access(op, q) ==
    CASE op = "front" -> [out |-> Head(q), data |-> q, pc |-> "QNotify"]
      [] op = "back" -> [out |-> q[Len(q)], data |-> q, pc |-> "QNotify"]
      [] op = "pop" -> [out |-> Head(q), data |-> Tail(q), pc |-> "QRet"]

\* line 71-73, 81-83, 118-120: if (data.empty()) data_cv.wait(lock, ...)
WhenEmpty(q) == [out |-> 0, data |-> q, pc |-> "QWaiting"]

\* the critical section of front, back and pop, entered with data_mutex
Locked(c, op) ==
    LET r == IF data = << >> THEN WhenEmpty(data) ELSE Access(op, data)
    IN  /\ data' = r.data
        /\ qout' = [qout EXCEPT ![c] = r.out]
        /\ qpc' = [qpc EXCEPT ![c] = r.pc]

\* line 69-78: T front() const
front(c) ==
    /\ qpc[c] = "idle"
    /\ qop' = [qop EXCEPT ![c] = "front"]
    /\ Locked(c, "front")
    /\ UNCHANGED threadPoolVars

\* line 79-88: T back() const
back(c) ==
    /\ qpc[c] = "idle"
    /\ qop' = [qop EXCEPT ![c] = "back"]
    /\ Locked(c, "back")
    /\ UNCHANGED threadPoolVars

\* line 116-124: T pop()
pop(c) ==
    /\ qpc[c] = "idle"
    /\ qop' = [qop EXCEPT ![c] = "pop"]
    /\ Locked(c, "pop")
    /\ UNCHANGED threadPoolVars

\* data_cv.wait: a spurious wake-up
QSpuriousWake(c) ==
    /\ qpc[c] = "QWaiting"
    /\ qpc' = [qpc EXCEPT ![c] = "QWoken"]
    /\ UNCHANGED <<threadPoolVars, data, qop, qout>>

\* data_cv.wait: the woken thread takes data_mutex again and tests the predicate
QRecheck(c) ==
    /\ qpc[c] = "QWoken"
    /\ Locked(c, qop[c])
    /\ UNCHANGED <<threadPoolVars, qop>>

QWaitSet == {c \in Clients : qpc[c] = "QWaiting"}

\* data_cv.notify_one by thread c: one blocked thread, if any, is woken
QNotifyOne(c, next) ==
    \E d \in (IF QWaitSet = {} THEN {c} ELSE QWaitSet) :
        qpc' = [x \in Clients |-> IF x = c THEN next
                                   ELSE IF x = d THEN "QWoken" ELSE qpc[x]]

\* line 75-77, 85-87: lock.unlock(); data_cv.notify_one(); return output
QNotify(c) ==
    /\ qpc[c] = "QNotify"
    /\ QNotifyOne(c, "QRet")
    /\ UNCHANGED <<threadPoolVars, data, qop, qout>>

\* line 90-94: push under data_mutex
push(c, v) ==
    /\ qpc[c] = "idle"
    /\ Len(data) < MaxQueue
    /\ data' = Append(data, v)
    /\ qpc' = [qpc EXCEPT ![c] = "QPushNotify"]
    /\ qop' = [qop EXCEPT ![c] = "push"]
    /\ UNCHANGED <<threadPoolVars, qout>>

\* line 95: data_cv.notify_one()
QPushNotify(c) ==
    /\ qpc[c] = "QPushNotify"
    /\ QNotifyOne(c, "QRet")
    /\ UNCHANGED <<threadPoolVars, data, qop, qout>>

\* line 126-129: clear
clear(c) ==
    /\ qpc[c] = "idle"
    /\ data # << >>
    /\ data' = << >>
    /\ UNCHANGED <<threadPoolVars, qpc, qop, qout>>

\* the member function returns to its caller
QReturn(c) ==
    /\ qpc[c] = "QRet"
    /\ qpc' = [qpc EXCEPT ![c] = "idle"]
    /\ qop' = [qop EXCEPT ![c] = "none"]
    /\ qout' = [qout EXCEPT ![c] = 0]
    /\ UNCHANGED <<threadPoolVars, data>>

(***************************************************************************)
(* Specifications.                                                         *)
(***************************************************************************)
WorkerStep(w) ==
    \/ WLock(w)
    \/ WCheckFinished(w)
    \/ WIncWaiting(w)
    \/ WPred(w)
    \/ WBlock(w)
    \/ WReacquire(w)
    \/ WDecWaiting(w)
    \/ WCheckNoMore(w)
    \/ WTakeTask(w)
    \/ WExec(w)

AddTask(c, limit) == AddCheck(c, limit) \/ AddPush(c) \/ AddNotify(c)

WaitUntilFinished(c) ==
    \/ WUFLock(c)
    \/ WUFSetFinished(c)
    \/ WUFNotify(c)
    \/ WUFJoin(c)
    \/ WUFClear(c)
    \/ WUFClearTasks(c)

StopASAP(c) ==
    \/ StopLock(c)
    \/ StopSetFinished(c)
    \/ StopSetNoMore(c)
    \/ StopNotify(c)
    \/ StopClearTasks(c)

Destructor(c) == DtorCall(c) \/ DtorMembers(c)

\* Any program: every client may call any method at any time.
Next ==
    \/ \E w \in Workers : WorkerStep(w) \/ WSpuriousWake(w)
    \/ \E c \in Clients :
         \/ AddTask(c, MaxSubmit)
         \/ WaitUntilFinished(c)
         \/ StopASAP(c)
         \/ \E n \in 0..MaxThreads : Restart(c, n)
         \/ Destructor(c)
         \/ Return(c)

Spec == Init /\ [][Next]_vars

(***************************************************************************)
(* Fair scheduling: a thread that can take a step eventually takes it, and *)
(* a thread that keeps finding a mutex free eventually acquires it.  A     *)
(* spurious wake-up is never guaranteed, and no client has to start a call.*)
(***************************************************************************)
FairWorker(w) ==
    /\ WF_vars(WCheckFinished(w) \/ WIncWaiting(w) \/ WPred(w) \/ WBlock(w)
               \/ WDecWaiting(w) \/ WCheckNoMore(w) \/ WTakeTask(w) \/ WExec(w))
    /\ SF_vars(WLock(w))
    /\ SF_vars(WReacquire(w))

FairAddTask(c) ==
    /\ SF_vars(AddPush(c))
    /\ WF_vars(AddNotify(c))
    /\ WF_vars(Return(c))

FairWaitUntilFinished(c) ==
    /\ WF_vars(WUFSetFinished(c) \/ WUFNotify(c) \/ WUFJoin(c) \/ WUFClear(c))
    /\ SF_vars(WUFClearTasks(c))

\* A pool of k >= 1 workers on which no shutdown is initiated.
InitRun ==
    /\ \E k \in 1..MaxThreads : InitPool(k)
    /\ go = TRUE

NextRun ==
    \/ \E w \in Workers : WorkerStep(w) \/ WSpuriousWake(w)
    \/ \E c \in Clients : AddTask(c, MaxTasks) \/ Return(c)

SpecRun ==
    /\ InitRun
    /\ [][NextRun]_vars
    /\ \A w \in Workers : FairWorker(w)
    /\ \A c \in Clients : FairAddTask(c)

\* Graceful shutdown: clients call AddTask and WaitUntilFinished only.
NextGraceful ==
    \/ \E w \in Workers : WorkerStep(w) \/ WSpuriousWake(w)
    \/ \E c \in Clients : AddTask(c, MaxTasks) \/ WaitUntilFinished(c) \/ Return(c)

SpecGraceful ==
    /\ InitRun
    /\ [][NextGraceful]_vars
    /\ \A w \in Workers : FairWorker(w)
    /\ \A c \in Clients : FairAddTask(c) /\ FairWaitUntilFinished(c)

\* As SpecRun, with callables that may throw.
NextThrow ==
    \/ \E w \in Workers : WorkerStep(w) \/ WExecThrows(w) \/ WSpuriousWake(w)
    \/ \E c \in Clients : AddTask(c, MaxSubmit) \/ Return(c)

SpecThrow ==
    /\ InitRun
    /\ [][NextThrow]_vars
    /\ \A w \in Workers : FairWorker(w)
    /\ \A c \in Clients : FairAddTask(c)

\* tests/thread_pool.cpp line 79-109 run by several threads: a pool of k >= 1
\* workers on which clients call AddTask, WaitUntilFinished and Restart, and
\* which is destroyed in the end.
NextRestart ==
    \/ \E w \in Workers : WorkerStep(w) \/ WSpuriousWake(w)
    \/ \E c \in Clients :
         \/ AddTask(c, MaxSubmit)
         \/ WaitUntilFinished(c)
         \/ \E n \in 0..MaxThreads : Restart(c, n)
         \/ Destructor(c)
         \/ Return(c)

SpecRestart == InitRun /\ [][NextRestart]_vars

\* A pool of k >= 1 workers that is shut down and not restarted: clients call
\* AddTask, WaitUntilFinished and StopASAP, and StopASAP may also be called
\* while a WaitUntilFinished call is in progress.
NextDrain ==
    \/ \E w \in Workers : WorkerStep(w) \/ WSpuriousWake(w)
    \/ \E c \in Clients :
         \/ AddTask(c, MaxSubmit)
         \/ WaitUntilFinished(c)
         \/ StopASAP(c)
         \/ StopCalledDuringWait(c)
         \/ StopLockAfterWait(c)
         \/ Return(c)

SpecDrain == InitRun /\ [][NextDrain]_vars

(***************************************************************************)
(* tests/thread_pool.cpp line 111-144, "thread_pool can be interrupted":   *)
(* one thread submits tasks that block until go, calls StopASAP once and   *)
(* then sets go.                                                           *)
(***************************************************************************)
TestThread == 1

InitInterrupt ==
    /\ \E k \in 1..MaxThreads : InitPool(k)
    /\ go = FALSE

TestAddTask ==
    \/ ~finished /\ AddCheck(TestThread, MaxTasks)
    \/ AddPush(TestThread)
    \/ AddNotify(TestThread)

TestStopASAP ==
    \/ nextTask > 1 /\ ~noMoreTasks /\ StopLock(TestThread)
    \/ StopSetFinished(TestThread)
    \/ StopSetNoMore(TestThread)
    \/ StopNotify(TestThread)
    \/ StopClearTasks(TestThread)

NextInterrupt ==
    \/ \E w \in Workers : WorkerStep(w) \/ WSpuriousWake(w)
    \/ TestAddTask
    \/ TestStopASAP
    \/ Return(TestThread)
    \/ Release

SpecInterrupt == InitInterrupt /\ [][NextInterrupt]_vars

\* The same program under fair scheduling of the workers and of the thread
\* inside StopASAP.  Nothing obliges the test to release the tasks.
FairStopASAP(c) ==
    /\ WF_vars(StopSetFinished(c) \/ StopSetNoMore(c) \/ StopNotify(c))
    /\ SF_vars(StopClearTasks(c))

SpecInterruptFair ==
    /\ InitInterrupt
    /\ [][NextInterrupt]_vars
    /\ \A w \in Workers : FairWorker(w)
    /\ FairStopASAP(TestThread)

(***************************************************************************)
(* Any program that shares one AtomicQueue between its threads.            *)
(***************************************************************************)
InitQueue ==
    /\ InitPool(0)
    /\ go = TRUE

NextQueue ==
    \E c \in Clients :
        \/ front(c)
        \/ back(c)
        \/ pop(c)
        \/ \E v \in QValues : push(c, v)
        \/ clear(c)
        \/ QSpuriousWake(c)
        \/ QRecheck(c)
        \/ QNotify(c)
        \/ QPushNotify(c)
        \/ QReturn(c)

SpecQueue == InitQueue /\ [][NextQueue]_vars

(***************************************************************************)
(* Properties.                                                             *)
(***************************************************************************)
HasValue(t) == future[t] = Invoke(t)
Abandoned(t) == future[t].st = "broken"
InFlight(t) == \E w \in Workers : wpc[w] = "Exec" /\ myTask[w] = t
JustReturned(c, how) == cpc[c] = "Ret" /\ result[c] = how

\* C1: in a pool of k >= 1 workers that is never shut down, every task AddTask
\* has packaged is eventually executed, exactly once, and its future then
\* holds exactly the value its callable returns.
C1_EveryTaskCompletes ==
    \A t \in TaskIds :
        (future[t].st = "pending") ~> (HasValue(t) /\ execCount[t] = 1)

C1_Witness ==
    /\ ThreadCount >= 1
    /\ \A t \in TaskIds : HasValue(t) /\ execCount[t] = 1

\* C2: under graceful shutdown no callable ever runs twice, and once
\* WaitUntilFinished has emptied the thread set and every call has returned,
\* each task for which AddTask returned a future has run exactly once.
GracefulDone == threads = << >> /\ \A c \in Clients : cpc[c] = "idle"

C2_ExactlyOnce ==
    /\ \A t \in TaskIds : execCount[t] <= 1
    /\ GracefulDone => \A t \in TaskIds : Returned(t) => execCount[t] = 1

\* C3: when WaitUntilFinished returns, every task whose AddTask call had
\* returned before WaitUntilFinished was called has been executed and its
\* future holds the value.
C3_DrainComplete ==
    \A c \in Clients :
        JustReturned(c, "wuf_ok") => \A t \in snap[c] : HasValue(t)

\* C4: once WaitUntilFinished or StopASAP has returned and until Restart, every
\* AddTask call throws std::logic_error and leaves the queue, the flags and the
\* thread set unchanged.
C4_AddTaskThrowsAfterShutdown ==
    [][\A c \in Clients :
          (shutdownReturned /\ AddCheck(c, MaxSubmit)) =>
              /\ result'[c] = "add_throw"
              /\ UNCHANGED <<tasks, finished, noMoreTasks, threads>>]_vars

\* C5: no task is pushed onto the task queue while finished is true.
C5_NoPushWhenFinished ==
    [][\A c \in Clients : AddPush(c) => ~finished]_vars

\* C6: every task is executed at most once, is never both executed and
\* abandoned, has its future hold the callable's value exactly if it was
\* executed, and once the pool is gone has ended in exactly one of the two
\* outcomes: executed once with the value in the future, or abandoned with a
\* broken promise.
C6_ExecutedOrAbandoned ==
    \A t \in TaskIds :
        /\ execCount[t] <= 1
        /\ ~(execCount[t] >= 1 /\ Abandoned(t))
        /\ execCount[t] = 1 <=> HasValue(t)
        /\ (life = "destroyed" /\ future[t].st # "none") =>
               \/ execCount[t] = 1 /\ HasValue(t)
               \/ execCount[t] = 0 /\ Abandoned(t)

C6_Witness ==
    /\ stopInfo.effective
    /\ life = "destroyed"
    /\ \E t \in TaskIds : execCount[t] = 1 /\ HasValue(t)
    /\ \E t \in TaskIds : execCount[t] = 0 /\ Abandoned(t)

\* C7 as stated: of the tasks submitted and not yet completed when StopASAP
\* was called, at most ThreadCount() have completed successfully when it
\* returns, and every other one is in flight or abandoned.
C7_AtMostThreadCountFromCall ==
    \A c \in Clients :
        JustReturned(c, "stop_ok") =>
            /\ Cardinality({t \in snap[c] : HasValue(t)}) <= ThreadCount
            /\ \A t \in snap[c] : HasValue(t) \/ InFlight(t) \/ Abandoned(t)

\* C7 amended: for a StopASAP call that takes effect, of the tasks that were
\* queued or in flight at the moment it set noMoreTasks, at most ThreadCount()
\* (at most one per worker) are ever executed; once StopASAP has returned
\* every other one has been destroyed unexecuted and its future reports
\* abandonment.
StopReturned ==
    /\ stopInfo.effective
    /\ \A c \in Clients : cpc[c] \notin {"StopNotify", "StopClearTasks"}

C7_AtMostThreadCountFromEffect ==
    stopInfo.effective =>
        /\ Cardinality({t \in stopInfo.snap : HasValue(t) \/ InFlight(t)}) <= stopInfo.k
        /\ StopReturned =>
               \A t \in stopInfo.snap :
                   \/ HasValue(t)
                   \/ InFlight(t)
                   \/ Abandoned(t) /\ execCount[t] = 0

C7_Witness ==
    /\ StopReturned
    /\ stopInfo.k >= 1
    /\ Cardinality(stopInfo.snap) > stopInfo.k
    /\ \E t \in stopInfo.snap : HasValue(t)
    /\ \E t \in stopInfo.snap : Abandoned(t)

\* The interrupt test: n tasks were submitted to k workers, StopASAP has
\* returned, the tasks were released and no worker is still running one.
Submitted == nextTask - 1
AfterRelease == go /\ \A w \in Workers : wpc[w] # "Exec"

\* C8: with n > k blocked tasks and StopASAP called without waiting
\* for the workers, after release exactly the first k futures yield the value
\* and the other n-k report abandonment.
C8_ExactlyThreadCountComplete ==
    (AfterRelease /\ Submitted > ThreadCount) =>
        \A t \in 1..Submitted :
            IF t <= ThreadCount THEN HasValue(t) ELSE Abandoned(t)

C10_WaitUntilFinishedReturns ==
    \A c \in Clients : (cpc[c] = "WufSetFinished") ~> (cpc[c] = "Ret")

\* C11 as stated: when StopASAP returns, every worker thread has exited and
\* been joined (the thread set is empty) and the task queue is empty.
C11_StopJoinsAndClears ==
    \A c \in Clients :
        JustReturned(c, "stop_ok") =>
            /\ \A w \in Workers : wpc[w] \in {"NoThread", "Exited"}
            /\ threads = << >>
            /\ tasks = << >>

\* C11 amended: when a StopASAP call that took effect has returned, both flags
\* are set and no task that was queued when it set noMoreTasks is still in the
\* queue (each was taken by a worker or destroyed); the workers have not been
\* joined and may still be running.
C11_StopClearsQueue ==
    StopReturned =>
        /\ finished /\ noMoreTasks
        /\ Range(tasks) \cap stopInfo.snap = {}
        /\ \A t \in stopInfo.snap : InFlight(t) \/ Completed(t) \/ Abandoned(t)

C11_Witness ==
    /\ \E c \in Clients : JustReturned(c, "stop_ok")
    /\ threads # << >>
    /\ \E w \in Workers : wpc[w] = "Exec"
    /\ \E t \in stopInfo.snap : Abandoned(t)

\* C12: StopASAP does not wait for tasks in flight: a call made while workers
\* are blocked inside callables that never finish still returns, with those
\* workers still inside their callables, and ThreadCount() is the same from
\* the call to the return.
InStopASAP(c) ==
    cpc[c] \in {"StopSetFinished", "StopSetNoMore", "StopNotify", "StopClearTasks"}

BlockedInFlight == ~go /\ \E w \in Workers : wpc[w] = "Exec"

C12_StopDoesNotWait ==
    /\ [](\A c \in Clients :
            (InStopASAP(c) \/ JustReturned(c, "stop_ok")) => ThreadCount = stopInfo.k)
    /\ \A c \in Clients :
         (InStopASAP(c) /\ BlockedInFlight) ~> (JustReturned(c, "stop_ok") /\ BlockedInFlight)

C12_Witness ==
    /\ \E c \in Clients : JustReturned(c, "stop_ok")
    /\ BlockedInFlight
    /\ ThreadCount >= 1
    /\ ThreadCount = stopInfo.k

\* C13: Restart(n) on a pool whose thread set is not empty throws
\* std::logic_error and leaves finished, noMoreTasks, the thread set, the
\* worker threads and the task queue as they were.
C13_RestartThrowsWhenRunning ==
    [][\A c \in Clients : \A n \in 0..MaxThreads :
          (threads # << >> /\ Restart(c, n)) =>
              /\ result'[c] = "restart_throw"
              /\ UNCHANGED <<finished, noMoreTasks, threads, tasks, wpc>>]_vars

C13_Witness ==
    /\ \E c \in Clients : JustReturned(c, "restart_throw")
    /\ threads # << >>
    /\ ~finished

\* C14: once a StopASAP call that took effect has returned and every worker
\* has left WaitForTask, Restart(n) succeeds without a WaitUntilFinished call
\* in between.
WorkersDone == \A w \in Workers : wpc[w] \in {"NoThread", "Exited"}

C14_RestartAfterStopASAP ==
    [][\A c \in Clients : \A n \in 0..MaxThreads :
          (StopReturned /\ WorkersDone /\ Restart(c, n)) =>
              result'[c] = "restart_ok"]_vars

\* C15: a Restart(n) that succeeds after WaitUntilFinished has returned leaves
\* the pool in the state of a pool freshly constructed with n threads: both
\* flags false, n workers at the top of WaitForTask, idle count 0, empty queue.
C15_RestartLikeFresh ==
    [][\A c \in Clients : \A n \in 0..MaxThreads :
          (shutdownReturned /\ Restart(c, n) /\ result'[c] = "restart_ok") =>
              /\ finished' = FALSE
              /\ noMoreTasks' = FALSE
              /\ threads' = ThreadSeq(n)
              /\ wpc' = Spawn(n)
              /\ waiting' = 0
              /\ tasks' = << >>]_vars

\* C16: when a callable throws, the exception is stored in that task's own
\* future and nowhere else, the worker returns to the top of its loop with the
\* flags and the thread set unchanged, every future that holds a value holds
\* its own callable's value, and every task AddTask has packaged is still
\* executed exactly once (the worker goes on to dequeue further tasks).
C16_ExceptionIsolation ==
    /\ [](\A t \in TaskIds : future[t].st = "value" => future[t] = Invoke(t))
    /\ [][\A w \in Workers :
            WExecThrows(w) =>
                /\ future' = [future EXCEPT ![myTask[w]] = Raised]
                /\ wpc'[w] = "Lock"
                /\ UNCHANGED <<finished, noMoreTasks, threads>>]_vars
    /\ \A t \in TaskIds :
         (future[t].st = "pending") ~>
             (future[t].st \in {"value", "exception"} /\ execCount[t] = 1)

C16_Witness ==
    /\ ThreadCount = 1
    /\ future[1] = Raised
    /\ HasValue(2)
    /\ wpc[1] # "Exited"

\* C17: every task is in at most one place: held by the AddTask call that has
\* not pushed it yet, in the queue (once), owned by exactly one worker, or
\* destroyed; a task that has left the queue never enters it again, and no
\* callable is executed more than once.
InQueue(t) == t \in Range(tasks)
Owners(t) == {w \in Workers : myTask[w] = t}
HeldByAddTask(t) == \E c \in Clients : cpc[c] = "AddPush" /\ cTask[c] = t

C17_OnePlace ==
    /\ [](\A t \in TaskIds :
            /\ Cardinality({i \in 1..Len(tasks) : tasks[i] = t}) <= 1
            /\ Cardinality(Owners(t)) <= 1
            /\ ~(InQueue(t) /\ Owners(t) # {})
            /\ HeldByAddTask(t) => ~InQueue(t) /\ Owners(t) = {}
            /\ Abandoned(t) => ~InQueue(t) /\ Owners(t) = {} /\ ~HeldByAddTask(t)
            /\ execCount[t] <= 1)
    /\ [][\A t \in TaskIds : (Pushed(t) /\ ~InQueue(t)) => ~(t \in Range(tasks'))]_vars

C17_Witness ==
    \E t1, t2 \in TaskIds :
        /\ InFlight(t1)
        /\ Abandoned(t2)

\* C18: in every reachable state the idle counter is the number of worker
\* threads of the thread set that are between ++waiting and --waiting, hence
\* between 0 and ThreadCount(), and ThreadCount() - IdleThreadCount(), taken
\* in one state, is not negative (the size_t subtraction does not wrap).
IdleWorkers ==
    {w \in Workers : wpc[w] \in {"Pred", "Block", "Waiting", "Woken", "DecWaiting"}}

C19_WaitUntilFinishedIdempotent ==
    [][\A c \in Clients :
          (shutdownReturned /\ (WUFLock(c) \/ DtorCall(c))) =>
              /\ cpc'[c] = "Ret"
              /\ result'[c] = "wuf_ok"
              /\ UNCHANGED poolVars
              /\ UNCHANGED <<workerVars, future, execCount>>]_vars

\* Two calls on a pool constructed with threads have returned, the second one
\* begun after the first had released threadMutex on its return.
C19_Witness ==
    /\ restarts = 0
    /\ finished
    /\ threads = << >>
    /\ \A c \in Clients : JustReturned(c, "wuf_ok")

\* C20: front(), back() and pop() called on an empty AtomicQueue throw
\* std::out_of_range instead of blocking, and leave the queue unchanged.
C20_EmptyAccessThrows ==
    [][\A c \in Clients :
          (data = << >> /\ (front(c) \/ back(c) \/ pop(c))) =>
              /\ qpc'[c] = "QRet"
              /\ qout'[c] = "out_of_range"
              /\ data' = data]_vars

\* C21: finished and noMoreTasks are set to true only while the storing thread
\* holds taskMutex, right before the notification.  Hence a worker that has
\* evaluated ThreadShouldWake() as false and still holds taskMutex never sees a
\* flag become true before it blocks, and no worker stays blocked with a flag
\* set once the notification has been issued.
ShutdownNotifyPending ==
    \E c \in Clients : cpc[c] \in {"WufNotify", "StopSetNoMore", "StopNotify"}

C21_FlagsSetUnderTaskLock ==
    /\ \A w \in Workers : wpc[w] = "Block" => ~finished /\ ~noMoreTasks
    /\ \A w \in Workers :
         (wpc[w] = "Waiting" /\ (finished \/ noMoreTasks)) => ShutdownNotifyPending

\* C22: the task queue changes only inside a critical section of taskMutex
\* (the worker that pops holds it; a push or a clear is a critical section
\* entered while nobody holds it), at most one thread is inside such a
\* critical section at a time, and a worker running a callable does not hold
\* taskMutex.
TaskLockHolders ==
    {w \in Workers : wpc[w] \in {"CheckFinished", "IncWaiting", "Pred", "Block",
                                 "DecWaiting", "CheckNoMore", "TakeTask"}}

C22_QueueUnderTaskLock ==
    /\ [](/\ Cardinality(TaskLockHolders) <= 1
          /\ \A w \in Workers : (w \in TaskLockHolders) <=> (taskMutex = W(w))
          /\ taskMutex = Free \/ \E w \in Workers : taskMutex = W(w)
          /\ \A w \in Workers : wpc[w] = "Exec" => taskMutex # W(w))
    /\ [][tasks' # tasks =>
            \/ \E w \in Workers : taskMutex = W(w) /\ WTakeTask(w)
            \/ taskMutex = Free /\ TaskLockHolders = {}]_vars

\* A worker runs a callable while another worker holds taskMutex to dequeue and
\* a StopASAP call waits for taskMutex to clear the queue.
C22_Witness ==
    /\ \E w1, w2 \in Workers :
         /\ wpc[w1] = "Exec"
         /\ wpc[w2] = "TakeTask"
         /\ taskMutex = W(w2)
    /\ tasks # << >>
    /\ \E c \in Clients : cpc[c] = "StopClearTasks"

\* C23: tasks leave the queue in the order in which they were pushed: a push
\* puts the task behind every queued task, the queued tasks keep their order,
\* a task never leaves the queue while a task ahead of it stays, and a worker
\* that dequeues takes the task at the front.  The order in which the
\* callables finish is free.
Pos(q, t) == CHOOSE i \in 1..Len(q) : q[i] = t

C23_FifoDequeue ==
    [][/\ \A i, j \in 1..Len(tasks) :
            (i < j /\ tasks[i] \in Range(tasks')) =>
                /\ tasks[j] \in Range(tasks')
                /\ Pos(tasks', tasks[i]) < Pos(tasks', tasks[j])
       /\ \A t \in Range(tasks') \ Range(tasks) :
            /\ tasks'[Len(tasks')] = t
            /\ Range(tasks) \subseteq Range(tasks')
       /\ \A w \in Workers :
            (myTask'[w] # myTask[w] /\ myTask'[w] # 0) =>
                /\ tasks # << >>
                /\ myTask'[w] = Head(tasks)
                /\ myTask'[w] \notin Range(tasks')]_vars

\* Two threads submit: the task packaged second was pushed first and has been
\* dequeued; the task packaged first was pushed behind it and is still queued.
C23_Witness ==
    /\ tasks = <<1>>
    /\ InFlight(2)
    /\ ~Completed(2)

\* C24: under fair scheduling, once a StopASAP call that took effect has
\* returned, every worker leaves WaitForTask without a further call on the
\* pool, unless it is inside a callable that has not returned.
C24_WorkersExitAfterStop ==
    \A w \in Workers :
        StopReturned ~> (\/ wpc[w] \in {"NoThread", "Exited"}
                         \/ wpc[w] = "Exec" /\ ~go)

\* C25: a worker leaves WaitForTask only in a state where noMoreTasks is set,
\* or where the queue is empty and finished is set.  While neither flag is set
\* no worker has exited and the number of workers inside WaitForTask is
\* ThreadCount().
LiveWorkers == {w \in Workers : wpc[w] \notin {"NoThread", "Exited"}}

C25_ExitOnlyOnShutdown ==
    /\ [][\A w \in Workers :
            (wpc[w] # "Exited" /\ wpc'[w] = "Exited") =>
                noMoreTasks \/ (tasks = << >> /\ finished)]_vars
    /\ []((~finished /\ ~noMoreTasks) =>
            /\ \A w \in Workers : wpc[w] # "Exited"
            /\ Cardinality(LiveWorkers) = ThreadCount)

\* A worker has left through the empty queue of a pool marked finished only,
\* while another worker is still running a task.
C25_Witness ==
    /\ finished
    /\ ~noMoreTasks
    /\ tasks = << >>
    /\ \E w1, w2 \in Workers : wpc[w1] = "Exited" /\ wpc[w2] = "Exec"

\* C26: in a program that shuts the pool down with WaitUntilFinished only,
\* from the return of a WaitUntilFinished call until Restart succeeds the
\* thread set is empty and the task queue is empty, whatever AddTask calls
\* run concurrently.
C26_EmptyUntilRestart ==
    shutdownReturned => threads = << >> /\ tasks = << >>

\* C27: from the return of a StopASAP call that took effect until Restart
\* succeeds, no worker takes a task from the queue, even if the queue is not
\* empty: a worker that comes back from its callable sees noMoreTasks and
\* leaves.
C27_NoDequeueAfterStop ==
    [][StopReturned =>
          \A w \in Workers :
              /\ ~(WTakeTask(w) /\ tasks # << >>)
              /\ myTask'[w] \in {myTask[w], 0}]_vars

\* StopASAP has returned, a task pushed late by a racing AddTask sits in the
\* queue, and the worker that was running a task has finished it and left.
C27_Witness ==
    /\ StopReturned
    /\ tasks # << >>
    /\ \E t \in stopInfo.snap : Completed(t)
    /\ \A w \in Workers : wpc[w] \in {"NoThread", "Exited"}

\* C28: WaitUntilFinished calls made by different threads are serialised by
\* threadMutex: at most one caller is past the lock at a time; every thread of
\* the thread set is joined, in turn and after it has left WaitForTask, by the
\* caller that found the set non-empty and by nobody after that; and when any
\* of the calls returns the thread set is empty and no worker is left.
InWaitUntilFinished(c) ==
    cpc[c] \in {"WufSetFinished", "WufNotify", "WufJoin", "WufClearTasks"}

C28_ConcurrentWaitUntilFinished ==
    /\ [](/\ Cardinality({c \in Clients : InWaitUntilFinished(c)}) <= 1
          /\ \A c \in Clients : InWaitUntilFinished(c) => threadMutex = C(c))
    /\ [](\A c \in Clients :
            JustReturned(c, "wuf_ok") => threads = << >> /\ LiveWorkers = {})
    /\ [][\A c \in Clients :
            WUFJoin(c) =>
                /\ ~shutdownReturned
                /\ wpc[threads[cJoin[c]]] = "Exited"
                /\ cJoin'[c] = cJoin[c] + 1]_vars
    /\ [][\A c \in Clients :
            WUFClear(c) =>
                \A i \in 1..Len(threads) : wpc[threads[i]] = "Exited"]_vars

\* Both threads' calls have returned on a pool that had MaxThreads workers and
\* has run every task.
C28_Witness ==
    /\ \A c \in Clients : JustReturned(c, "wuf_ok")
    /\ threads = << >>
    /\ Submitted = MaxTasks
    /\ \A t \in TaskIds : HasValue(t)

Quiescent ==
    /\ \A c \in Clients : cpc[c] = "idle"
    /\ \A w \in Workers : wpc[w] \in {"NoThread", "Exited", "Waiting"}

C30_IntrospectionWhenQuiescent ==
    Quiescent =>
        /\ RunningThreadCount = 0
        /\ Idle
        /\ ~Running

====
